---- MODULE Spec2Model ----
(***************************************************************************)
(* Model of src/model_opt.py: the call site of line 105 and the function   *)
(* optimizar_prestamos (lines 36-65).                                      *)
(*                                                                         *)
(* Numbers are integers.  The weights of the sliders are multiples of 0.05 *)
(* and are written here multiplied by 20, so IPS is the source's IPS times *)
(* 20; the order of the efficiencies is the same.  An efficiency is kept   *)
(* as the pair numerator/denominator and compared by cross-multiplication, *)
(* and a division by a zero amount yields what the float division of       *)
(* pandas yields: inf, -inf or NaN, without raising.                       *)
(*                                                                         *)
(* optimizar_prestamos validates nothing, so its inputs are drawn from     *)
(* what it accepts, which is more than the page feeds it: the page's       *)
(* generator only makes amounts of 500 and more and its slider only        *)
(* capitals of 5000 and more, while the function also takes an amount of   *)
(* 0, a capital of 0 and a negative capital.                               *)
(***************************************************************************)
EXTENDS Integers, Sequences, FiniteSets

\* ---------------------------------------------------------------- bounds
MaxSolicitudes == 3
MaxMonto == 2
MaxCapital == 2

\* ------------------------------------------------ the tables (DataFrames)
\* The five criteria of a request (lines 25-29), two profiles of them.
Perfiles ==
    { [V_Viabilidad |-> 1, C_Cohesion_Grupo |-> 1, I_Impacto_Comunitario |-> 1,
       N_Nivel_Necesidad |-> 1, E_Compromiso |-> 1],
      [V_Viabilidad |-> 2, C_Cohesion_Grupo |-> 3, I_Impacto_Comunitario |-> 1,
       N_Nivel_Necesidad |-> 2, E_Compromiso |-> 2] }

\* One row of the table of requests: its amount and its criteria.  The label
\* Nombre_Proyecto plays no part, and ID_Proyecto is the position of the row.
Filas == { [Monto_Solicitado |-> m, criterios |-> c] : m \in 0..MaxMonto, c \in Perfiles }

\* The columns of the table the generator builds (lines 21-30).
ColumnasEntrada ==
    {"ID_Proyecto", "Nombre_Proyecto", "Monto_Solicitado", "V_Viabilidad",
     "C_Cohesion_Grupo", "I_Impacto_Comunitario", "N_Nivel_Necesidad", "E_Compromiso"}

\* A table: its columns, its rows (the index label of a row is its position)
\* and the two derived columns, empty until they are assigned.
TablaDe(filas) ==
    [columnas |-> ColumnasEntrada, filas |-> filas, IPS |-> << >>,
     Eficiencia_Solidaria |-> << >>]

TablasEntrada == UNION { [1..n -> Filas] : n \in 0..MaxSolicitudes }

\* The weights of the sliders (lines 91-97), times 20: all zero, and the defaults.
PesosPosibles ==
    { [w_v |-> 0, w_c |-> 0, w_i |-> 0, w_n |-> 0, w_e |-> 0],
      [w_v |-> 6, w_c |-> 4, w_i |-> 4, w_n |-> 4, w_e |-> 2] }

\* The capital the function is called with: the function accepts any number,
\* a negative one too.
CapitalesPosibles == (0 - 1)..MaxCapital

\* ------------------------------------------------------- pure operations
\* Lines 39-45: the weighted sum of the five criteria of one row.
IPSDe(pesos_, fila) ==
    pesos_.w_v * fila.criterios.V_Viabilidad +
    pesos_.w_c * fila.criterios.C_Cohesion_Grupo +
    pesos_.w_i * fila.criterios.I_Impacto_Comunitario +
    pesos_.w_n * fila.criterios.N_Nivel_Necesidad +
    pesos_.w_e * fila.criterios.E_Compromiso

\* Line 48: the float division ips / monto.  It never raises: a zero amount
\* gives inf, -inf or NaN.  Amounts are never negative here.
Division(ips, monto) ==
    IF monto # 0 THEN [clase |-> "finito", num |-> ips, den |-> monto]
    ELSE IF ips > 0 THEN [clase |-> "inf", num |-> 0, den |-> 0]
    ELSE IF ips < 0 THEN [clase |-> "-inf", num |-> 0, den |-> 0]
    ELSE [clase |-> "nan", num |-> 0, den |-> 0]

EsNaN(e) == e.clase = "nan"

EsFinito(e) == e.clase = "finito"

\* a > b on floats; every comparison with NaN is false.
Mayor(a, b) ==
    IF EsNaN(a) \/ EsNaN(b) THEN FALSE
    ELSE IF a.clase = "inf" THEN b.clase # "inf"
    ELSE IF a.clase = "-inf" THEN FALSE
    ELSE IF b.clase = "inf" THEN FALSE
    ELSE IF b.clase = "-inf" THEN TRUE
    ELSE a.num * b.den > b.num * a.den

\* a == b on floats.
Igual(a, b) == ~EsNaN(a) /\ ~EsNaN(b) /\ ~Mayor(a, b) /\ ~Mayor(b, a)

Permutaciones(n) ==
    { p \in [1..n -> 1..n] : \A i, j \in 1..n : p[i] = p[j] => i = j }

\* Line 51: df.sort_values(by=..., ascending=False) with the default
\* kind='quicksort' and na_position='last'.  The result is in descending
\* order with the NaN rows last, in their input order; quicksort is not a
\* stable sort, so rows of equal efficiency may come out in either order.
SortValues(ef) ==
    { p \in Permutaciones(Len(ef)) :
        \A i, j \in 1..Len(ef) : i < j =>
            /\ ~Mayor(ef[p[j]], ef[p[i]])
            /\ EsNaN(ef[p[i]]) => EsNaN(ef[p[j]])
            /\ (EsNaN(ef[p[i]]) /\ EsNaN(ef[p[j]])) => p[i] < p[j] }

\* Line 54: the capital the walk starts with.
CapitalInicialCero(capital) == 0

CapitalInicial(capital) == capital

\* Line 58: the test of the greedy walk.
CabeEstricto(monto, capital) == monto < capital

Cabe(monto, capital) == monto <= capital

\* Line 60: the capital left after approving a request.
CapitalTrasSumar(capital, monto) == capital + monto

CapitalTras(capital, monto) == capital - monto

\* Line 57: the loop goes on to the next row of df_sorted, whether the row
\* was approved or not (n is the number of rows).
SiguientePosCorte(p, n, aprobado) == IF aprobado THEN p + 1 ELSE n + 1

SiguientePos(p, n, aprobado) == p + 1

\* One record of an output table: the row with its index label and the two
\* derived columns.
Registro(t, i) ==
    [index |-> i, fila |-> t.filas[i], IPS |-> t.IPS[i],
     Eficiencia_Solidaria |-> t.Eficiencia_Solidaria[i]]

\* Line 62: df.loc[labels], the rows of the labels, in the order of the labels.
Loc(t, etiquetas) == [k \in 1..Len(etiquetas) |-> Registro(t, etiquetas[k])]

Rango(s) == { s[k] : k \in 1..Len(s) }

RECURSIVE Filtrar(_, _, _)
\* The rows i..Len of t whose label is in `quedan`, in the order of t.
Filtrar(t, quedan, i) ==
    IF i > Len(t.filas) THEN << >>
    ELSE IF i \in quedan THEN << Registro(t, i) >> \o Filtrar(t, quedan, i + 1)
    ELSE Filtrar(t, quedan, i + 1)

\* Line 63: df.drop(labels), the rows of df without those of the labels.
DropNada(t, etiquetas) == Filtrar(t, 1..Len(t.filas), 1)

Drop(t, etiquetas) == Filtrar(t, (1..Len(t.filas)) \ Rango(etiquetas), 1)

\* ------------------------------------------------------------- the state
VARIABLES
    tablas,                  \* the table objects: df_solicitudes and its copy
    df,                      \* the object the parameter df of the function names
    capital_disponible,      \* the parameter capital_disponible (capital_total)
    pesos,                   \* the parameter pesos
    df_sorted,               \* line 51: the index labels in sorted order
    pos,                     \* the position of the loop of line 57 in df_sorted
    capital_restante,        \* line 54
    proyectos_aprobados_idx, \* line 55
    proyectos_aprobados,     \* line 62, returned
    proyectos_rechazados,    \* line 63, returned
    capital_sobrante,        \* the third value returned (line 105)
    pc                       \* where the program is

vars ==
    << tablas, df, capital_disponible, pesos, df_sorted, pos, capital_restante,
       proyectos_aprobados_idx, proyectos_aprobados, proyectos_rechazados,
       capital_sobrante, pc >>

\* Lines 79-102: the table of requests, the capital and the weights exist; the
\* function has not been called.
Init ==
    /\ \E filas \in TablasEntrada :
          tablas = [o \in {"df_solicitudes", "copia"} |->
                      IF o = "df_solicitudes" THEN TablaDe(filas) ELSE TablaDe(<< >>)]
    /\ df = "ninguno"
    /\ capital_disponible \in CapitalesPosibles
    /\ pesos \in PesosPosibles
    /\ df_sorted = << >>
    /\ pos = 1
    /\ capital_restante = 0
    /\ proyectos_aprobados_idx = << >>
    /\ proyectos_aprobados = << >>
    /\ proyectos_rechazados = << >>
    /\ capital_sobrante = 0
    /\ pc = "inicio"

\* Line 105: optimizar_prestamos(df_solicitudes.copy(), capital_total, pesos).
\* The argument is a new object with the contents of df_solicitudes.
Llamar ==
    /\ pc = "inicio"
    /\ tablas' = [tablas EXCEPT !["copia"] = tablas["df_solicitudes"]]
    /\ df' = "copia"
    /\ pc' = "puntuar"
    /\ UNCHANGED << capital_disponible, pesos, df_sorted, pos, capital_restante,
                    proyectos_aprobados_idx, proyectos_aprobados,
                    proyectos_rechazados, capital_sobrante >>

\* Lines 39-48: the columns IPS and Eficiencia_Solidaria are assigned in the
\* table the parameter names.  capital_disponible is not looked at.
Puntuar ==
    /\ pc = "puntuar"
    /\ LET t == tablas[df]
           ips == [i \in 1..Len(t.filas) |-> IPSDe(pesos, t.filas[i])]
           ef == [i \in 1..Len(t.filas) |->
                     Division(ips[i], t.filas[i].Monto_Solicitado)]
       IN tablas' = [tablas EXCEPT ![df] =
                        [t EXCEPT !.columnas = @ \cup {"IPS", "Eficiencia_Solidaria"},
                                  !.IPS = ips,
                                  !.Eficiencia_Solidaria = ef]]
    /\ pc' = "ordenar"
    /\ UNCHANGED << df, capital_disponible, pesos, df_sorted, pos, capital_restante,
                    proyectos_aprobados_idx, proyectos_aprobados,
                    proyectos_rechazados, capital_sobrante >>

\* Lines 51-55: the sort, and the initial values of the walk.
Ordenar ==
    /\ pc = "ordenar"
    /\ df_sorted' \in SortValues(tablas[df].Eficiencia_Solidaria)
    /\ capital_restante' = CapitalInicial(capital_disponible)
    /\ proyectos_aprobados_idx' = << >>
    /\ pos' = 1
    /\ pc' = "iterar"
    /\ UNCHANGED << tablas, df, capital_disponible, pesos, proyectos_aprobados,
                    proyectos_rechazados, capital_sobrante >>

\* Lines 57-60: one iteration of the loop over the sorted rows.
Iterar ==
    /\ pc = "iterar"
    /\ pos <= Len(df_sorted)
    /\ LET index == df_sorted[pos]
           monto == tablas[df].filas[index].Monto_Solicitado
       IN IF Cabe(monto, capital_restante)
          THEN /\ proyectos_aprobados_idx' = Append(proyectos_aprobados_idx, index)
               /\ capital_restante' = CapitalTras(capital_restante, monto)
          ELSE UNCHANGED << proyectos_aprobados_idx, capital_restante >>
    /\ pos' = SiguientePos(pos, Len(df_sorted),
                           Cabe(tablas[df].filas[df_sorted[pos]].Monto_Solicitado,
                                capital_restante))
    /\ UNCHANGED << tablas, df, capital_disponible, pesos, df_sorted,
                    proyectos_aprobados, proyectos_rechazados, capital_sobrante, pc >>

\* Lines 62-65 and the assignment of line 105: the loop is over, the two
\* tables are built and the three values are returned.
Retornar ==
    /\ pc = "iterar"
    /\ pos > Len(df_sorted)
    /\ proyectos_aprobados' = Loc(tablas[df], proyectos_aprobados_idx)
    /\ proyectos_rechazados' = Drop(tablas[df], proyectos_aprobados_idx)
    /\ capital_sobrante' = capital_restante
    /\ pc' = "fin"
    /\ UNCHANGED << tablas, df, capital_disponible, pesos, df_sorted, pos,
                    capital_restante, proyectos_aprobados_idx >>

Next == Llamar \/ Puntuar \/ Ordenar \/ Iterar \/ Retornar

Spec == Init /\ [][Next]_vars

\* ------------------------------------------------------------ the claims
\* What the claims speak of, read off the values the call returns and the
\* table of requests the caller holds.
Entrada == tablas["df_solicitudes"].filas

NumSolicitudes == Len(Entrada)

Terminado == pc = "fin"

IndicesDe(registros) == { registros[k].index : k \in 1..Len(registros) }

Aprobados == IndicesDe(proyectos_aprobados)

EnEspera == IndicesDe(proyectos_rechazados)

MontoDe(i) == Entrada[i].Monto_Solicitado

EficienciaDe(i) == Division(IPSDe(pesos, Entrada[i]), MontoDe(i))

RECURSIVE SumaMontos(_)
SumaMontos(registros) ==
    IF registros = << >> THEN 0
    ELSE Head(registros).fila.Monto_Solicitado + SumaMontos(Tail(registros))

RECURSIVE SumaAprobadosAntes(_)
\* The amounts of the approved requests among the first k - 1 of the walk.
SumaAprobadosAntes(k) ==
    IF k <= 1 THEN 0
    ELSE SumaAprobadosAntes(k - 1) +
         (IF df_sorted[k - 1] \in Aprobados THEN MontoDe(df_sorted[k - 1]) ELSE 0)

\* The capital remaining when the k-th request of the walk is considered.
CapitalAlConsiderar(k) == capital_disponible - SumaAprobadosAntes(k)

\* The inputs the contract allows: a budget that is not negative and
\* positive amounts.
EntradaValida ==
    /\ capital_disponible >= 0
    /\ \A i \in 1..NumSolicitudes : MontoDe(i) > 0

\* C1: the remaining capital returned is the capital budget minus the sum of
\* the amounts of the approved requests, and it is never negative.
C1_Conservacion ==
    Terminado =>
        /\ capital_sobrante = capital_disponible - SumaMontos(proyectos_aprobados)
        /\ capital_sobrante >= 0

\* C2: every request of the input is in exactly one of the two tables
\* returned, with its own row, and the two lengths add up to the number of
\* requests.
C2_Particion ==
    Terminado =>
        /\ Len(proyectos_aprobados) + Len(proyectos_rechazados) = NumSolicitudes
        /\ \A i \in 1..NumSolicitudes :
              Cardinality({ k \in 1..Len(proyectos_aprobados) :
                              proyectos_aprobados[k].index = i }) +
              Cardinality({ k \in 1..Len(proyectos_rechazados) :
                              proyectos_rechazados[k].index = i }) = 1
        /\ Aprobados \cup EnEspera = 1..NumSolicitudes
        /\ Aprobados \cap EnEspera = {}
        /\ \A k \in 1..Len(proyectos_aprobados) :
              proyectos_aprobados[k].fila = Entrada[proyectos_aprobados[k].index]
        /\ \A k \in 1..Len(proyectos_rechazados) :
              proyectos_rechazados[k].fila = Entrada[proyectos_rechazados[k].index]

\* A call that approved some requests and left others waiting.
C2_Testigo ==
    Terminado /\ Len(proyectos_aprobados) >= 1 /\ Len(proyectos_rechazados) >= 2

\* C3: the walk visits every request once, in descending order of
\* efficiency; a request is approved exactly when its amount is at most the
\* capital remaining when it is considered (budget minus the amounts approved
\* before it), an approval subtracts exactly its amount, a request that does
\* not fit changes nothing and does not stop the walk.
C3_ReglaCodiciosa ==
    Terminado =>
        /\ Len(df_sorted) = NumSolicitudes
        /\ Rango(df_sorted) = 1..NumSolicitudes
        /\ \A i, j \in 1..NumSolicitudes :
              i < j => ~Mayor(EficienciaDe(df_sorted[j]), EficienciaDe(df_sorted[i]))
        /\ \A k \in 1..NumSolicitudes :
              /\ df_sorted[k] \in Aprobados <=>
                    MontoDe(df_sorted[k]) <= CapitalAlConsiderar(k)
              /\ df_sorted[k] \in EnEspera <=>
                    MontoDe(df_sorted[k]) > CapitalAlConsiderar(k)
        /\ capital_sobrante = CapitalAlConsiderar(NumSolicitudes + 1)

\* A walk in which a request did not fit, a later one was approved, and the
\* last approval was an exact fit.
C3_Testigo ==
    /\ Terminado
    /\ capital_sobrante = 0
    /\ capital_disponible > 0
    /\ \E k1, k2 \in 1..NumSolicitudes :
          /\ k1 < k2
          /\ df_sorted[k1] \in EnEspera
          /\ df_sorted[k2] \in Aprobados
          /\ MontoDe(df_sorted[k2]) = CapitalAlConsiderar(k2)
          /\ MontoDe(df_sorted[k2]) > 0

\* C4: a request whose amount is 0 is never approved, and no efficiency that
\* is not a finite number reaches the tables returned (stated here for the
\* budgets that are not negative).
C4_MontoCero ==
    (Terminado /\ capital_disponible >= 0) =>
        /\ \A k \in 1..Len(proyectos_aprobados) :
              proyectos_aprobados[k].fila.Monto_Solicitado # 0
        /\ \A k \in 1..Len(proyectos_aprobados) :
              EsFinito(proyectos_aprobados[k].Eficiencia_Solidaria)
        /\ \A k \in 1..Len(proyectos_rechazados) :
              EsFinito(proyectos_rechazados[k].Eficiencia_Solidaria)

\* C5: a call with a negative capital budget is rejected: it returns no
\* tables and no remaining capital.
C5_PresupuestoInvalido == capital_disponible < 0 => ~Terminado

\* C6: the approved table is in descending order of efficiency, and requests
\* of equal efficiency keep their order of the input, in the sorted sequence
\* and in the approved table (stated here for the inputs the contract allows).
C6_OrdenEstable ==
    (Terminado /\ EntradaValida) =>
        /\ \A i, j \in 1..Len(proyectos_aprobados) :
              i < j =>
                 /\ ~Mayor(proyectos_aprobados[j].Eficiencia_Solidaria,
                           proyectos_aprobados[i].Eficiencia_Solidaria)
                 /\ Igual(proyectos_aprobados[i].Eficiencia_Solidaria,
                          proyectos_aprobados[j].Eficiencia_Solidaria)
                      => proyectos_aprobados[i].index < proyectos_aprobados[j].index
        /\ \A i, j \in 1..Len(df_sorted) :
              (i < j /\ Igual(EficienciaDe(df_sorted[i]), EficienciaDe(df_sorted[j])))
                 => df_sorted[i] < df_sorted[j]

\* C7: the call leaves the table it is given as it was: the same columns and
\* the same rows, with no derived column written into it (stated here for
\* the inputs the contract allows, one request at least).
C7_SinMutacion ==
    (df # "ninguno" /\ EntradaValida /\ NumSolicitudes >= 1) =>
        /\ tablas[df].columnas = ColumnasEntrada
        /\ tablas[df].filas = Entrada
        /\ tablas[df].IPS = << >>
        /\ tablas[df].Eficiencia_Solidaria = << >>

\* C8: when every request asks for more than the capital budget (no request
\* at all included), nothing is approved, every request waits and the
\* remaining capital is the budget.
C8_NadaCabe ==
    (Terminado /\ \A i \in 1..NumSolicitudes : MontoDe(i) > capital_disponible) =>
        /\ proyectos_aprobados = << >>
        /\ Len(proyectos_rechazados) = NumSolicitudes
        /\ \A i \in 1..NumSolicitudes : proyectos_rechazados[i].index = i
        /\ capital_sobrante = capital_disponible

\* A call with a positive budget and several requests, each above the budget.
C8_Testigo ==
    /\ Terminado
    /\ capital_disponible >= 1
    /\ NumSolicitudes >= 2
    /\ \A i \in 1..NumSolicitudes : MontoDe(i) > capital_disponible

\* The case of C9: X, of strictly higher efficiency than Y, waits, and the
\* amount of Y exceeded the capital remaining just before X was considered.
CasoC9(kx, ky) ==
    /\ Mayor(EficienciaDe(df_sorted[kx]), EficienciaDe(df_sorted[ky]))
    /\ df_sorted[kx] \in EnEspera
    /\ MontoDe(df_sorted[ky]) > CapitalAlConsiderar(kx)

C10_Maximal ==
    (Terminado /\ EntradaValida) =>
        \A k \in 1..Len(proyectos_rechazados) :
            proyectos_rechazados[k].fila.Monto_Solicitado > capital_sobrante

\* Capital is left over after an approval, and a request waits.
C10_Testigo ==
    /\ Terminado
    /\ capital_sobrante > 0
    /\ \A i \in 1..NumSolicitudes : MontoDe(i) > 0
    /\ proyectos_aprobados # << >>
    /\ proyectos_rechazados # << >>

====
